---- MODULE Spec2Model ----
(***************************************************************************)
(* Model of imdb_plex_sync.py: one invocation of main() fetches the IMDb   *)
(* watchlist, resolves it to Plex rating keys through the parquet index,   *)
(* reads the Plex Discover watchlist page by page and then adds / removes  *)
(* the difference.  The remote watchlist, the IMDb export and the index    *)
(* are the environment; everything else is local to one invocation.       *)
(***************************************************************************)
EXTENDS Integers, Sequences, FiniteSets, TLC

VARIABLES
    imdb_watchlist,    \* environment: the Const column of the IMDb CSV export
    index,             \* environment: rows of plex.parquet
    remote,            \* environment: Metadata items of the Plex watchlist, in server order
    add_at,            \* environment: where the server lists a newly added item
    dry_run,           \* CLI flag --dry-run of the current invocation
    pc,                \* position of the current invocation inside main()
    imdb_ids,          \* main: imdb_ids
    plex_rating_keys,  \* list returned by _imdb_to_plex_rating_keys
    imdb_keys,         \* main: imdb_keys
    keys,              \* _plex_watchlist: keys
    offset,            \* _plex_watchlist: offset
    plex_keys,         \* main: plex_keys
    pendingAdd,        \* keys of `imdb_keys - plex_keys` whose add call has not completed
    pendingRemove,     \* keys of `plex_keys - imdb_keys` whose remove call has not completed
    log,               \* records emitted through logger.warning / logger.info
    requests,          \* page requests issued by this invocation
    addCalls,          \* keys passed to _plex_watchlist_add by this invocation, in order
    removeCalls,       \* keys passed to _plex_watchlist_remove by this invocation, in order
    error,             \* the call that raised in this invocation, "none" otherwise
    remote0,           \* the remote watchlist when this invocation started
    run,               \* number of the current invocation
    faults,            \* number of transport failures so far
    prev               \* summary of the previous invocation

env   == <<imdb_watchlist, index, add_at>>
local == <<imdb_ids, plex_rating_keys, imdb_keys, keys, offset, plex_keys,
           pendingAdd, pendingRemove>>
obs   == <<log, requests, addCalls, removeCalls>>
hist  == <<remote0, run, prev>>
vars  == <<imdb_watchlist, index, remote, add_at, dry_run, pc, imdb_ids,
           plex_rating_keys, imdb_keys, keys, offset, plex_keys, pendingAdd,
           pendingRemove, log, requests, addCalls, removeCalls, error,
           remote0, run, faults, prev>>

----------------------------------------------------------------------------
(* Bounds of the model *)

\* full pages of titles present on both lists
MaxPages == 1
\* the number of common titles ranges within Slack of a page boundary
Slack == 1
\* titles only on the IMDb watchlist
MaxAdd == 2
\* titles only on the Plex watchlist
MaxRemove == 2
\* invocations of main() in one behaviour
MaxRuns == 2
\* transport failures in one behaviour
MaxFaults == 1
\* digits of a Const identifier in the generated IMDb exports
IdWidth == 3
\* length of the identifier lists handed to the resolver on its own
MaxIds == 2

(* Program constants *)

\* _plex_watchlist: size = 50
size == 50
\* _plex_watchlist_page: assert size <= 100
MaxPageSize == 100

----------------------------------------------------------------------------
(* Strings are sequences of one-character strings where the code looks     *)
(* inside them (IMDb identifiers); rating keys are only concatenated and   *)
(* compared, so they are TLA+ strings.                                     *)

Digits == <<"0", "1", "2", "3", "4", "5", "6", "7", "8", "9">>
HexChars == <<"0", "1", "2", "3", "4", "5", "6", "7", "8", "9",
              "a", "b", "c", "d", "e", "f">>

\* the null of a polars string column
NULL == "NULL"

SeqToSet(s) == {s[i] : i \in 1..Len(s)}

\* pl.col("imdb_id").str.replace("tt", ""): the first match only
MatchAt(s, pat, i) ==
    /\ i + Len(pat) - 1 <= Len(s)
    /\ SubSeq(s, i, i + Len(pat) - 1) = pat

str_replace(s, pat, val) ==
    IF \E i \in 1..Len(s) : MatchAt(s, pat, i)
    THEN LET i == CHOOSE i \in 1..Len(s) :
                     /\ MatchAt(s, pat, i)
                     /\ \A j \in 1..(i - 1) : ~MatchAt(s, pat, j)
         IN  SubSeq(s, 1, i - 1) \o val \o SubSeq(s, i + Len(pat), Len(s))
    ELSE s

\* .cast(pl.Int64) is strict: a string that is not a decimal number raises
IsDigit(c) == \E d \in 1..10 : Digits[d] = c
DigitValue(c) == (CHOOSE d \in 1..10 : Digits[d] = c) - 1
CastOk(s) == Len(s) > 0 /\ \A i \in 1..Len(s) : IsDigit(s[i])

RECURSIVE cast_Int64(_)
cast_Int64(s) ==
    IF s = <<>> THEN 0
    ELSE 10 * cast_Int64(SubSeq(s, 1, Len(s) - 1)) + DigitValue(s[Len(s)])

imdb_numeric_id(imdb_id) == cast_Int64(str_replace(imdb_id, <<"t", "t">>, <<>>))
ImdbIdOk(imdb_id) == CastOk(str_replace(imdb_id, <<"t", "t">>, <<>>))

\* pl.col("key").bin.encode("hex"): two lowercase hex digits per byte
RECURSIVE bin_encode_hex(_)
bin_encode_hex(bytes) ==
    IF bytes = <<>> THEN ""
    ELSE HexChars[(Head(bytes) \div 16) + 1] \o HexChars[(Head(bytes) % 16) + 1]
         \o bin_encode_hex(Tail(bytes))

\* df2: a row of the index whose key cell is null has no "key" field here
rating_key(row) ==
    IF "key" \in DOMAIN row THEN bin_encode_hex(row.key) ELSE NULL

\* df1.join(df2, on="imdb_numeric_id", how="left").select("rating_key"):
\* one output row per matching index row, one null row when there is none
RECURSIVE left_join(_, _)
left_join(df1, df2) ==
    IF df1 = <<>> THEN <<>>
    ELSE LET m == SelectSeq(df2, LAMBDA r : r.imdb_numeric_id = Head(df1))
         IN  (IF m = <<>> THEN <<NULL>>
              ELSE [i \in 1..Len(m) |-> rating_key(m[i])])
             \o left_join(Tail(df1), df2)

\* the list _imdb_to_plex_rating_keys returns
_imdb_to_plex_rating_keys(ids, idx) ==
    LET df1 == [i \in 1..Len(ids) |-> imdb_numeric_id(ids[i])]
        df3 == SelectSeq(left_join(df1, idx), LAMBDA k : k # NULL)
    IN  df3

\* the record _imdb_to_plex_rating_keys logs
FoundLog(found, total) ==
    IF found < total
    THEN [level |-> "warning", msg |-> "Found %i/%i IMDb IDs", args |-> <<found, total>>]
    ELSE [level |-> "info", msg |-> "Found all %i IMDB IDs", args |-> <<total>>]

----------------------------------------------------------------------------
(* The Plex Discover watchlist *)

\* the items the server returns for X-Plex-Container-Start / -Size
Page(srv, start, sz) ==
    SubSeq(srv, start + 1, IF start + sz < Len(srv) THEN start + sz ELSE Len(srv))

\* _plex_watchlist_page: the ratingKey of every returned item that has one
_plex_watchlist_page(srv, start, sz) ==
    LET metadata == SelectSeq(Page(srv, start, sz), LAMBDA m : "ratingKey" \in DOMAIN m)
    IN  [i \in 1..Len(metadata) |-> metadata[i].ratingKey]

\* _plex_watchlist as a whole: pages from offset `start` on, up to and
\* including the first page that yields fewer than size keys
RECURSIVE plex_watchlist_from(_, _)
plex_watchlist_from(srv, start) ==
    LET page_keys == _plex_watchlist_page(srv, start, size)
    IN  IF Len(page_keys) < size THEN page_keys
        ELSE page_keys \o plex_watchlist_from(srv, start + size)

_plex_watchlist(srv) == plex_watchlist_from(srv, 0)

RemoteKeys(srv) == {srv[i].ratingKey : i \in {j \in 1..Len(srv) : "ratingKey" \in DOMAIN srv[j]}}

\* PUT /actions/addToWatchlist?ratingKey=key
_plex_watchlist_add(srv, key) ==
    IF key \in RemoteKeys(srv) THEN srv
    ELSE LET item == [ratingKey |-> key, type |-> "movie"]
         IN  IF add_at = "front" THEN <<item>> \o srv ELSE Append(srv, item)

\* PUT /actions/removeFromWatchlist?ratingKey=key
_plex_watchlist_remove(srv, key) ==
    SelectSeq(srv, LAMBDA m : ~("ratingKey" \in DOMAIN m /\ m.ratingKey = key))

----------------------------------------------------------------------------
(* main() *)

\* variant: every resolved key is added, whether or not Plex already has it
ToAdd_all(ik, pk) == ik

ToAdd(ik, pk) == ik \ pk
ToRemove(ik, pk) == pk \ ik

Raise(call) ==
    /\ pc' = "failed"
    /\ error' = call

Fault(call) ==
    /\ faults < MaxFaults
    /\ faults' = faults + 1
    /\ Raise(call)

\* imdb_ids = _fetch_imdb_watchlist(imdb_watchlist_url)
main_fetch_imdb_watchlist ==
    /\ pc = "fetch"
    /\ imdb_ids' = imdb_watchlist
    /\ pc' = "resolve"
    /\ UNCHANGED <<env, remote, dry_run, plex_rating_keys, imdb_keys, keys, offset,
                   plex_keys, pendingAdd, pendingRemove, obs, error, hist, faults>>

\* urlopen / open / csv raise inside _fetch_imdb_watchlist
main_fetch_imdb_watchlist_raises ==
    /\ pc = "fetch"
    /\ Fault("_fetch_imdb_watchlist")
    /\ UNCHANGED <<env, remote, dry_run, local, obs, hist>>

\* imdb_keys = set(_imdb_to_plex_rating_keys(imdb_ids)); a Const that does not
\* cast to Int64 raises when the frame is collected
main_imdb_to_plex_rating_keys ==
    /\ pc = "resolve"
    /\ IF \A i \in 1..Len(imdb_ids) : ImdbIdOk(imdb_ids[i])
       THEN LET result == _imdb_to_plex_rating_keys(imdb_ids, index)
            IN  /\ plex_rating_keys' = result
                /\ log' = Append(log, FoundLog(Len(result), Len(imdb_ids)))
                /\ imdb_keys' = SeqToSet(result)
                /\ pc' = "read"
                /\ error' = error
       ELSE /\ Raise("_imdb_to_plex_rating_keys")
            /\ UNCHANGED <<plex_rating_keys, log, imdb_keys>>
    /\ UNCHANGED <<env, remote, dry_run, imdb_ids, keys, offset, plex_keys,
                   pendingAdd, pendingRemove, requests, addCalls, removeCalls,
                   hist, faults>>

\* scan_parquet / collect cannot reach the index
main_imdb_to_plex_rating_keys_raises ==
    /\ pc = "resolve"
    /\ Fault("_imdb_to_plex_rating_keys")
    /\ UNCHANGED <<env, remote, dry_run, local, obs, hist>>

\* one iteration of the loop of _plex_watchlist; after the break,
\* plex_keys = set(keys) and the two differences are what the for loops iterate
plex_watchlist_page ==
    /\ pc = "read"
    /\ size <= MaxPageSize
    /\ LET page_keys == _plex_watchlist_page(remote, offset, size)
           all == keys \o page_keys
       IN  /\ requests' = Append(requests, [offset |-> offset, size |-> size,
                                            returned |-> Len(page_keys)])
           /\ keys' = all
           /\ IF Len(page_keys) < size
              THEN /\ plex_keys' = SeqToSet(all)
                   /\ pendingAdd' = ToAdd(imdb_keys, SeqToSet(all))
                   /\ pendingRemove' = ToRemove(imdb_keys, SeqToSet(all))
                   /\ pc' = "reconcile"
                   /\ offset' = offset
              ELSE /\ offset' = offset + size
                   /\ UNCHANGED <<plex_keys, pendingAdd, pendingRemove, pc>>
    /\ UNCHANGED <<env, remote, dry_run, imdb_ids, plex_rating_keys, imdb_keys,
                   log, addCalls, removeCalls, error, hist, faults>>

\* variant: a failed page request is taken for the end of the watchlist
plex_watchlist_page_raises_as_end ==
    /\ pc = "read"
    /\ requests' = Append(requests, [offset |-> offset, size |-> size, returned |-> -1])
    /\ faults < MaxFaults
    /\ faults' = faults + 1
    /\ error' = "_plex_watchlist_page"
    /\ plex_keys' = SeqToSet(keys)
    /\ pendingAdd' = ToAdd(imdb_keys, SeqToSet(keys))
    /\ pendingRemove' = ToRemove(imdb_keys, SeqToSet(keys))
    /\ pc' = "reconcile"
    /\ UNCHANGED <<env, remote, dry_run, imdb_ids, plex_rating_keys, imdb_keys, keys,
                   offset, log, addCalls, removeCalls, hist>>

\* urlopen / json.load raise inside _plex_watchlist_page
plex_watchlist_page_raises ==
    /\ pc = "read"
    /\ requests' = Append(requests, [offset |-> offset, size |-> size, returned |-> -1])
    /\ Fault("_plex_watchlist_page")
    /\ UNCHANGED <<env, remote, dry_run, local, log, addCalls, removeCalls, hist>>

\* variant: the add loop without the dry_run test
main_add_ignores_dry_run ==
    /\ pc = "reconcile"
    /\ \E key \in pendingAdd :
         /\ pendingAdd' = pendingAdd \ {key}
         /\ log' = Append(log, [level |-> "info", msg |-> "+ %s", args |-> <<key>>])
         /\ addCalls' = Append(addCalls, key)
         /\ remote' = _plex_watchlist_add(remote, key)
    /\ UNCHANGED <<env, dry_run, pc, imdb_ids, plex_rating_keys, imdb_keys, keys,
                   offset, plex_keys, pendingRemove, requests, removeCalls, error,
                   hist, faults>>

\* one iteration of `for key in imdb_keys - plex_keys`
main_add ==
    /\ pc = "reconcile"
    /\ \E key \in pendingAdd :
         /\ pendingAdd' = pendingAdd \ {key}
         /\ IF dry_run
            THEN /\ log' = Append(log, [level |-> "info", msg |-> "[DRY RUN] + %s", args |-> <<key>>])
                 /\ UNCHANGED <<remote, addCalls>>
            ELSE /\ log' = Append(log, [level |-> "info", msg |-> "+ %s", args |-> <<key>>])
                 /\ addCalls' = Append(addCalls, key)
                 /\ remote' = _plex_watchlist_add(remote, key)
    /\ UNCHANGED <<env, dry_run, pc, imdb_ids, plex_rating_keys, imdb_keys, keys,
                   offset, plex_keys, pendingRemove, requests, removeCalls, error,
                   hist, faults>>

\* variant: the exception of _plex_watchlist_add is swallowed and the loop goes on
main_add_raises_swallowed ==
    /\ pc = "reconcile"
    /\ ~dry_run
    /\ \E key \in pendingAdd :
         /\ pendingAdd' = pendingAdd \ {key}
         /\ log' = Append(log, [level |-> "info", msg |-> "+ %s", args |-> <<key>>])
         /\ addCalls' = Append(addCalls, key)
         /\ remote' \in {remote, _plex_watchlist_add(remote, key)}
    /\ faults < MaxFaults
    /\ faults' = faults + 1
    /\ error' = "_plex_watchlist_add"
    /\ UNCHANGED <<env, dry_run, pc, imdb_ids, plex_rating_keys, imdb_keys, keys,
                   offset, plex_keys, pendingRemove, requests, removeCalls, hist>>

\* _plex_watchlist_add raises: the request may or may not have reached the server
main_add_raises ==
    /\ pc = "reconcile"
    /\ ~dry_run
    /\ \E key \in pendingAdd :
         /\ log' = Append(log, [level |-> "info", msg |-> "+ %s", args |-> <<key>>])
         /\ addCalls' = Append(addCalls, key)
         /\ remote' \in {remote, _plex_watchlist_add(remote, key)}
    /\ Fault("_plex_watchlist_add")
    /\ UNCHANGED <<env, dry_run, local, requests, removeCalls, hist>>

\* one iteration of `for key in plex_keys - imdb_keys`
main_remove ==
    /\ pc = "reconcile"
    /\ pendingAdd = {}
    /\ \E key \in pendingRemove :
         /\ pendingRemove' = pendingRemove \ {key}
         /\ IF dry_run
            THEN /\ log' = Append(log, [level |-> "info", msg |-> "[DRY RUN] - %s", args |-> <<key>>])
                 /\ UNCHANGED <<remote, removeCalls>>
            ELSE /\ log' = Append(log, [level |-> "info", msg |-> "- %s", args |-> <<key>>])
                 /\ removeCalls' = Append(removeCalls, key)
                 /\ remote' = _plex_watchlist_remove(remote, key)
    /\ UNCHANGED <<env, dry_run, pc, imdb_ids, plex_rating_keys, imdb_keys, keys,
                   offset, plex_keys, pendingAdd, requests, addCalls, error,
                   hist, faults>>

\* _plex_watchlist_remove raises
main_remove_raises ==
    /\ pc = "reconcile"
    /\ pendingAdd = {}
    /\ ~dry_run
    /\ \E key \in pendingRemove :
         /\ log' = Append(log, [level |-> "info", msg |-> "- %s", args |-> <<key>>])
         /\ removeCalls' = Append(removeCalls, key)
         /\ remote' \in {remote, _plex_watchlist_remove(remote, key)}
    /\ Fault("_plex_watchlist_remove")
    /\ UNCHANGED <<env, dry_run, local, requests, addCalls, hist>>

\* both loops are exhausted: main returns
main_return ==
    /\ pc = "reconcile"
    /\ pendingAdd = {}
    /\ pendingRemove = {}
    /\ pc' = "done"
    /\ UNCHANGED <<env, remote, dry_run, local, obs, error, hist, faults>>

LogArgs(prefix) ==
    LET s == SelectSeq(log, LAMBDA r : r.msg = prefix)
    IN  [i \in 1..Len(s) |-> s[i].args[1]]

PlannedAdd == LogArgs("+ %s") \o LogArgs("[DRY RUN] + %s")
PlannedRemove == LogArgs("- %s") \o LogArgs("[DRY RUN] - %s")

NoPrev == [pc |-> "none"]

\* the script is run again: nothing of the previous process survives but the
\* environment it left behind
next_run ==
    /\ pc \in {"done", "failed"}
    /\ run < MaxRuns
    /\ run' = run + 1
    /\ prev' = [pc |-> pc, error |-> error, dry_run |-> dry_run,
                addCalls |-> addCalls, removeCalls |-> removeCalls,
                plannedAdd |-> PlannedAdd, plannedRemove |-> PlannedRemove,
                pendingAdd |-> pendingAdd, pendingRemove |-> pendingRemove]
    /\ dry_run' \in BOOLEAN
    /\ pc' = "fetch"
    /\ imdb_ids' = <<>>
    /\ plex_rating_keys' = <<>>
    /\ imdb_keys' = {}
    /\ keys' = <<>>
    /\ offset' = 0
    /\ plex_keys' = {}
    /\ pendingAdd' = {}
    /\ pendingRemove' = {}
    /\ log' = <<>>
    /\ requests' = <<>>
    /\ addCalls' = <<>>
    /\ removeCalls' = <<>>
    /\ error' = "none"
    /\ remote0' = remote
    /\ UNCHANGED <<env, remote, faults>>

----------------------------------------------------------------------------
(* Initial states *)

RECURSIVE ZeroPad(_, _)
ZeroPad(n, width) ==
    IF width = 0 THEN <<>>
    ELSE ZeroPad(n \div 10, width - 1) \o <<Digits[(n % 10) + 1]>>

\* the Const field of title n in an IMDb export
Const(n) == <<"t", "t">> \o ZeroPad(n, IdWidth)
\* the 2-byte binary key the index holds for title n
KeyOf(n) == <<n \div 256, n % 256>>
IndexRow(n) == [imdb_numeric_id |-> n, key |-> KeyOf(n)]
Item(n) == [ratingKey |-> bin_encode_hex(KeyOf(n)), type |-> "movie"]
KeylessItem == [type |-> "movie"]

\* titles 1..c are on both lists, 900+i only on IMDb, 800+i only on Plex
OnlyImdb(i) == 900 + i
OnlyPlex(i) == 800 + i

CommonSizes ==
    {c \in 0..(MaxPages * size + Slack) :
        \E p \in 0..MaxPages, d \in (0 - Slack)..Slack : c = p * size + d}

InitLocal ==
    /\ pc = "fetch"
    /\ imdb_ids = <<>>
    /\ plex_rating_keys = <<>>
    /\ imdb_keys = {}
    /\ keys = <<>>
    /\ offset = 0
    /\ plex_keys = {}
    /\ pendingAdd = {}
    /\ pendingRemove = {}
    /\ log = <<>>
    /\ requests = <<>>
    /\ addCalls = <<>>
    /\ removeCalls = <<>>
    /\ error = "none"
    /\ run = 1
    /\ faults = 0
    /\ prev = NoPrev

\* the remote watchlist: the common titles, then the titles only on Plex; an
\* item without ratingKey may sit at the start of the page that holds the last
\* common title, or at the very end
KeylessAt(c) == IF c = 0 THEN 0 ELSE ((c - 1) \div size) * size

RemoteList(c, r, keyless) ==
    LET titles == [i \in 1..c |-> Item(i)] \o [i \in 1..r |-> Item(OnlyPlex(i))]
        k == KeylessAt(c)
    IN  CASE keyless = "none" -> titles
          [] keyless = "page" -> SubSeq(titles, 1, k) \o <<KeylessItem>>
                                   \o SubSeq(titles, k + 1, Len(titles))
          [] keyless = "back" -> Append(titles, KeylessItem)

Init ==
    /\ InitLocal
    /\ dry_run \in BOOLEAN
    /\ add_at \in {"front", "back"}
    /\ \E c \in CommonSizes, a \in 0..MaxAdd, r \in 0..MaxRemove,
          keyless \in {"none", "page", "back"} :
         /\ imdb_watchlist = [i \in 1..c |-> Const(i)] \o [i \in 1..a |-> Const(OnlyImdb(i))]
         /\ index = [i \in 1..c |-> IndexRow(i)]
                      \o [i \in 1..MaxAdd |-> IndexRow(OnlyImdb(i))]
                      \o [i \in 1..MaxRemove |-> IndexRow(OnlyPlex(i))]
         /\ remote = RemoteList(c, r, keyless)
    /\ remote0 = remote

Next ==
    \/ main_fetch_imdb_watchlist
    \/ main_fetch_imdb_watchlist_raises
    \/ main_imdb_to_plex_rating_keys
    \/ main_imdb_to_plex_rating_keys_raises
    \/ plex_watchlist_page
    \/ plex_watchlist_page_raises
    \/ main_add
    \/ main_add_raises
    \/ main_remove
    \/ main_remove_raises
    \/ main_return

\* one invocation of the script
Spec == Init /\ [][Next]_vars

\* the script invoked again and again, as a scheduled job does
NextRerun ==
    \/ Next
    \/ next_run

SpecRerun == Init /\ [][NextRerun]_vars

----------------------------------------------------------------------------
(* The resolver on its own: short identifier lists, among them two spellings *)
(* of one number, an identifier without index row and one that does not      *)
(* cast, against every selection of index rows, among them two rows for one  *)
(* numeric id and a row with a null key.                                     *)

IdPool == { <<"t", "t", "1">>, <<"t", "t", "0", "1">>, <<"t", "t", "2">>,
            <<"t", "t", "3">>, <<"n", "m", "1">> }

RowPool == << [imdb_numeric_id |-> 1, key |-> <<10, 171>>],
              [imdb_numeric_id |-> 1, key |-> <<10, 172>>],
              [imdb_numeric_id |-> 2],
              [imdb_numeric_id |-> 2, key |-> <<255, 0>>] >>

InitResolver ==
    /\ InitLocal
    /\ dry_run = FALSE
    /\ add_at = "back"
    /\ imdb_watchlist \in UNION {[1..n -> IdPool] : n \in 0..MaxIds}
    /\ \E rows \in SUBSET (1..Len(RowPool)) :
         index = SelectSeq(RowPool, LAMBDA row : \E i \in rows : RowPool[i] = row)
    /\ remote = <<>>
    /\ remote0 = remote

NextResolver ==
    \/ main_fetch_imdb_watchlist
    \/ main_imdb_to_plex_rating_keys

SpecResolver == InitResolver /\ [][NextResolver]_vars

----------------------------------------------------------------------------
(* Properties *)

NoDuplicates(s) == \A i, j \in 1..Len(s) : s[i] = s[j] => i = j
MutationCalls == {"_plex_watchlist_add", "_plex_watchlist_remove"}
\* the resolver has returned in this invocation
Resolved ==
    /\ pc \notin {"fetch", "resolve"}
    /\ error \notin {"_fetch_imdb_watchlist", "_imdb_to_plex_rating_keys"}
\* _plex_watchlist has returned in this invocation
ReadDone == pc \in {"reconcile", "done"} \/ error \in MutationCalls
\* this invocation has changed nothing on the server so far
Untouched == addCalls = <<>> /\ removeCalls = <<>>
Warned == \E i \in 1..Len(log) : log[i].level = "warning"
\* identifier imdb_id has a row with a key in the index
HasMatch(imdb_id) ==
    \E i \in 1..Len(index) :
        /\ index[i].imdb_numeric_id = imdb_numeric_id(imdb_id)
        /\ "key" \in DOMAIN index[i]

\* C1: a non-dry-run invocation in which every call succeeds ends with the
\* remote watchlist holding exactly the rating keys the resolver returned.
C1_RemoteEqualsResolved ==
    (pc = "done" /\ ~dry_run) => RemoteKeys(remote) = imdb_keys

\* C2: in a successful non-dry-run invocation the keys passed to
\* _plex_watchlist_add are exactly imdb_keys - plex_keys, those passed to
\* _plex_watchlist_remove exactly plex_keys - imdb_keys, each once, no key is
\* both added and removed, and equal sets mean no call at all.
C2_ExactDifference ==
    (pc = "done" /\ ~dry_run) =>
        /\ SeqToSet(addCalls) = imdb_keys \ plex_keys
        /\ SeqToSet(removeCalls) = plex_keys \ imdb_keys
        /\ NoDuplicates(addCalls)
        /\ NoDuplicates(removeCalls)
        /\ SeqToSet(addCalls) \cap SeqToSet(removeCalls) = {}
        /\ (imdb_keys = plex_keys => Untouched)

C2_Witness ==
    /\ pc = "done"
    /\ ~dry_run
    /\ Len(addCalls) >= 2
    /\ Len(removeCalls) >= 2

\* C3: with dry_run on, no add or remove call is made and the remote watchlist
\* stays as it was, whatever the difference; and the keys logged as planned
\* are, each once, the same function of the inputs (IMDb watchlist, index,
\* remote watchlist at start) in both modes, the keys a real run calls add and
\* remove for.
C3_DryRun ==
    /\ dry_run => (Untouched /\ remote = remote0)
    /\ pc = "done" =>
          LET ik == SeqToSet(_imdb_to_plex_rating_keys(imdb_watchlist, index))
              pk == SeqToSet(_plex_watchlist(remote0))
          IN  /\ NoDuplicates(PlannedAdd)
              /\ NoDuplicates(PlannedRemove)
              /\ SeqToSet(PlannedAdd) = ik \ pk
              /\ SeqToSet(PlannedRemove) = pk \ ik
              /\ ~dry_run => (addCalls = PlannedAdd /\ removeCalls = PlannedRemove)

C3_Witness ==
    /\ pc = "done"
    /\ dry_run
    /\ Len(PlannedAdd) >= 2
    /\ Len(PlannedRemove) >= 2
    /\ Untouched
    /\ remote = remote0

\* C4: _plex_watchlist returns every rating key that is on the remote
\* watchlist, also when items without ratingKey are present and when the
\* length of the watchlist is a multiple of the page size.
C4_CompleteRead ==
    (ReadDone /\ Untouched) => RemoteKeys(remote) \subseteq plex_keys

\* C5: the pages are requested with the fixed size (at most 100) at offsets
\* 0, size, 2*size, ..., every page but the last returns size keys, the last
\* fewer, and a watchlist of n items takes n \div size + 1 requests.
C5_Pagination ==
    /\ size <= 100
    /\ \A i \in 1..Len(requests) :
          /\ requests[i].size = size
          /\ requests[i].offset = (i - 1) * size
          /\ i < Len(requests) => requests[i].returned = size
    /\ ReadDone =>
          /\ requests[Len(requests)].returned < size
          /\ Len(requests) = (Len(remote0) \div size) + 1

\* C6: the resolver yields at most one rating key per input identifier, so
\* the returned list is never longer than the input list.
C6_AtMostOnePerIdentifier ==
    Resolved =>
        /\ Len(plex_rating_keys) <= Len(imdb_ids)
        /\ \A i \in 1..Len(imdb_ids) :
              Len(_imdb_to_plex_rating_keys(<<imdb_ids[i]>>, index)) <= 1

\* C7: a failing add or remove call ends the invocation at that call: it is
\* not retried, no later call is issued, the keys not yet processed are on the
\* remote watchlist exactly if they were before, and the completed calls keep
\* their effect.
C7_AbortInv ==
    error \in MutationCalls =>
        LET calls == IF error = "_plex_watchlist_add" THEN addCalls ELSE removeCalls
            failed == calls[Len(calls)]
        IN  /\ pc = "failed"
            /\ NoDuplicates(addCalls)
            /\ NoDuplicates(removeCalls)
            /\ error = "_plex_watchlist_add" => removeCalls = <<>>
            /\ failed \in (pendingAdd \cup pendingRemove)
            /\ \A k \in (pendingAdd \cup pendingRemove) \ {failed} :
                  /\ k \notin SeqToSet(addCalls) \cup SeqToSet(removeCalls)
                  /\ (k \in RemoteKeys(remote)) <=> (k \in RemoteKeys(remote0))
            /\ \A k \in SeqToSet(addCalls) \ {failed} : k \in RemoteKeys(remote)
            /\ \A k \in SeqToSet(removeCalls) \ {failed} : k \notin RemoteKeys(remote)

C7_AbortAtFailedCall ==
    /\ []C7_AbortInv
    /\ [][(pc = "failed" /\ run' = run) =>
            UNCHANGED <<remote, addCalls, removeCalls, requests, log, pc>>]_vars

C7_Witness ==
    /\ pc = "failed"
    /\ error = "_plex_watchlist_remove"
    /\ Len(addCalls) >= 1
    /\ Len(removeCalls) >= 2
    /\ Cardinality(pendingRemove) >= 1

\* C8: a run after a successful non-dry run (same IMDb watchlist, same index)
\* issues no add and no remove call; a run after a run that aborted in the
\* reconcile loops issues the calls that run had not completed and ends with
\* the watchlist an uninterrupted run ends with.
C8_Idempotent ==
    (run > 1 /\ pc = "done" /\ ~dry_run /\ ~prev.dry_run) =>
        /\ prev.pc = "done" => Untouched
        /\ (prev.pc = "failed" /\ prev.error \in MutationCalls) =>
              LET failed == IF prev.error = "_plex_watchlist_add"
                            THEN {prev.addCalls[Len(prev.addCalls)]}
                            ELSE {prev.removeCalls[Len(prev.removeCalls)]}
              IN  /\ SeqToSet(addCalls) \subseteq prev.pendingAdd
                  /\ prev.pendingAdd \ failed \subseteq SeqToSet(addCalls)
                  /\ SeqToSet(removeCalls) \subseteq prev.pendingRemove
                  /\ prev.pendingRemove \ failed \subseteq SeqToSet(removeCalls)
                  /\ RemoteKeys(remote) = imdb_keys

\* C9: when fetching the IMDb watchlist, the resolver or a page request
\* fails, the invocation ends there: no add or remove call is issued, nothing
\* is planned, and the remote watchlist is untouched.
C9_FatalInv ==
    error \in {"_fetch_imdb_watchlist", "_imdb_to_plex_rating_keys", "_plex_watchlist_page"} =>
        /\ pc = "failed"
        /\ Untouched
        /\ PlannedAdd = <<>>
        /\ PlannedRemove = <<>>
        /\ remote = remote0
        /\ error = "_fetch_imdb_watchlist" => imdb_ids = <<>>
        /\ error # "_plex_watchlist_page" => (imdb_keys = {} /\ requests = <<>>)
        /\ plex_keys = {}

C9_FatalBeforeReconcile ==
    /\ []C9_FatalInv
    /\ [][(pc = "failed" /\ run' = run) => UNCHANGED <<remote, addCalls, removeCalls>>]_vars

C9_Witness ==
    /\ pc = "failed"
    /\ error = "_plex_watchlist_page"
    /\ ~dry_run
    /\ Len(requests) >= 2
    /\ imdb_keys # RemoteKeys(remote)

\* C10: the resolver logs the partial-resolution warning exactly if some input
\* identifier has no match in the index; an empty list gives an empty result
\* and no warning; the warning does not end the invocation.
C10_WarningIffUnresolved ==
    Resolved =>
        /\ Warned <=> (\E i \in 1..Len(imdb_ids) : ~HasMatch(imdb_ids[i]))
        /\ imdb_ids = <<>> => (plex_rating_keys = <<>> /\ ~Warned)
        /\ Warned => pc # "failed"

====
